---- MODULE Spec2Model ----
(***************************************************************************)
(* Incident parser: the browser form (IncidentParser component), its API   *)
(* client (parseIncident, checkHealth) and the incident validator of the   *)
(* serving side.                                                           *)
(*                                                                         *)
(* JavaScript values are tagged records: t is the typeof-like tag and one  *)
(* further field carries the payload.  Texts typed into the form are       *)
(* sequences of one-character strings.                                     *)
(***************************************************************************)
EXTENDS Integers, Sequences, FiniteSets, TLC

VARIABLES
  inputText,    \* useState("")      : the textarea's text
  loading,      \* useState(false)   : a parse request is being awaited
  result,       \* useState(null)    : ParseIncidentResponse | null
  pending,      \* the fetch calls to /api/parse-incident not yet settled
  reading,      \* the responses whose body parseIncident is still awaiting
  lastOutcome,  \* what the network did to the request that settled last
  lastReturn,   \* how the promise of that parseIncident call settled
  lastAction,   \* the handler that ran last
  cleared,      \* Clear has run and Parse has not been invoked since
  mounted,      \* the component is on the page: no render has thrown
  health,       \* the latest checkHealth call
  backend       \* the latest request served by POST /api/parse-incident

vars == <<inputText, loading, result, pending, reading, lastOutcome, lastReturn,
          lastAction, cleared, mounted, health, backend>>

(***************************************************************************)
(* Bounds of the model.                                                    *)
(***************************************************************************)
MaxBody == 10

(***************************************************************************)
(* JavaScript values.                                                      *)
(***************************************************************************)
Undefined == [t |-> "undefined"]
JNull == [t |-> "null"]
JBool(b) == [t |-> "boolean", b |-> b]
JNum(n) == [t |-> "number", n |-> n]
\* A number with a fraction: n is its integer part, tenths (1..9) the rest.
JReal(n, tenths) == [t |-> "number", n |-> n, tenths |-> tenths]
IsInteger(v) == v.t = "number" /\ "tenths" \notin DOMAIN v
JStr(s) == [t |-> "string", s |-> s]
JArr(a) == [t |-> "array", a |-> a]
JObj(o) == [t |-> "object", o |-> o]
EmptyObject == JObj([k \in {} |-> Undefined])

\* ToBoolean: undefined, null, false, 0 and "" are falsy, every object is truthy.
Truthy(v) ==
  CASE v.t = "undefined" -> FALSE
    [] v.t = "null" -> FALSE
    [] v.t = "boolean" -> v.b
    [] v.t = "number" -> v.n # 0 \/ ~IsInteger(v)
    [] v.t = "string" -> v.s # ""
    [] OTHER -> TRUE

\* v.k throws a TypeError when v is null or undefined.
PropThrows(v) == v.t \in {"undefined", "null"}

\* v.k for a v on which property access does not throw.
Prop(v, k) ==
  IF v.t = "object" /\ k \in DOMAIN v.o THEN v.o[k] ELSE Undefined

\* A thrown value: an Error carrying a message, or something that is not an Error.
ErrorOf(m) == [isError |-> TRUE, message |-> m]
NonError == [isError |-> FALSE]

(***************************************************************************)
(* Texts of the form.                                                      *)
(***************************************************************************)
\* The code units String.prototype.trim strips: WhiteSpace and LineTerminator
\* of ECMAScript.  A code unit without an escape of its own is written U+xxxx.
WhiteSpace ==
  { "\t", "\n", "U+000B", "\f", "\r", " ", "U+00A0", "U+1680",
    "U+2000", "U+2001", "U+2002", "U+2003", "U+2004", "U+2005", "U+2006",
    "U+2007", "U+2008", "U+2009", "U+200A",
    "U+2028", "U+2029", "U+202F", "U+205F", "U+3000", "U+FEFF" }

RECURSIVE TrimStart(_)
TrimStart(s) ==
  IF s # <<>> /\ Head(s) \in WhiteSpace THEN TrimStart(Tail(s)) ELSE s

RECURSIVE TrimEnd(_)
TrimEnd(s) ==
  IF s # <<>> /\ s[Len(s)] \in WhiteSpace
    THEN TrimEnd(SubSeq(s, 1, Len(s) - 1))
    ELSE s

\* String.prototype.trim
Trim(s) == TrimEnd(TrimStart(s))

SAMPLE_INCIDENT ==
  <<
     "H", "e", "y", " ", "t", "e", "a", "m", ",", " ", "t", "h", "e", " ", "p", "r",
     "o", "d", "u", "c", "t", "i", "o", "n", " ", "d", "a", "t", "a", "b", "a", "s",
     "e", " ", "U", "S", "-", "E", "a", "s", "t", "-", "1", " ", "j", "u", "s", "t",
     " ", "t", "i", "m", "e", "d", " ", "o", "u", "t", " ", "a", "t", " ", "6", ":",
     "3", "0", " ", "P", "M", ".", " ", "I", " ", "t", "h", "i", "n", "k", " ", "i",
     "t", "'", "s", " ", "t", "h", "e", " ", "m", "i", "g", "r", "a", "t", "i", "o",
     "n", " ", "s", "c", "r", "i", "p", "t", " ", "d", "e", "p", "l", "o", "y", "e",
     "d", " ", "b", "y", " ", "S", "a", "r", "a", "h", ".", " ", "E", "r", "r", "o",
     "r", " ", "c", "o", "d", "e", " ", "5", "0", "3", " ", "s", "h", "o", "w", "i",
     "n", "g", " ", "u", "p", " ", "o", "n", " ", "t", "h", "e", " ", "l", "o", "a",
     "d", " ", "b", "a", "l", "a", "n", "c", "e", "r", ".", " ", "5", "0", "0", " ",
     "u", "s", "e", "r", "s", " ", "a", "f", "f", "e", "c", "t", "e", "d", "."
  >>

Repeat(c, n) == [i \in 1..n |-> c]

\* The texts a user types or pastes: a run of up to MaxBody letters, with or
\* without a blank before it and a line end after it.
TypedTexts ==
  { lead \o Repeat("a", j) \o trail :
      lead \in {<<>>, <<" ">>}, j \in 0..MaxBody,
      trail \in {<<>>, <<"\r", "\n">>} }

MIN_LENGTH == 10

\* The guard with the length comparison left out.
TooShortOnlyBlank(text) == Trim(text) = <<>>

\* The guard at the top of handleParse.
TooShort(text) == Trim(text) = <<>> \/ Len(Trim(text)) < MIN_LENGTH

TooShortResponse ==
  JObj([success |-> JBool(FALSE),
        error |-> JStr("Please enter at least 10 characters of incident text.")])

\* A Parse button that stays enabled while a request is awaited.
ParseDisabledIgnoresLoading == Trim(inputText) = <<>>

\* disabled={loading || !inputText.trim()} of the Parse button.
ParseDisabled == loading \/ Trim(inputText) = <<>>

(***************************************************************************)
(* What the network can do to a fetch call.                                *)
(***************************************************************************)
Statuses == {200, 422, 500}

\* Response.ok
Ok(status) == status \in 200..299

\* A body on which response.json() rejects with a SyntaxError carrying the
\* message m; the text of the message depends on the body and on the engine.
Undecodable(m) == [t |-> "invalid", message |-> m]

IsUndecodable(body) == body.t = "invalid"

SyntaxErrorMessages ==
  { "Unexpected token < in JSON at position 0",
    "Unexpected token '<', \"<html>\" is not valid JSON",
    "Unexpected end of JSON input" }

FullRecord ==
  JObj([Severity |-> JStr("High"), Component |-> JStr("Database"),
        Timestamp |-> JStr("2024-01-01T18:30:00"),
        Suspected_Cause |-> JStr("Migration script"),
        Impact_Count |-> JNum(500)])

OddSeverityRecord ==
  JObj([Severity |-> JStr("Critical"), Component |-> JStr("Database"),
        Timestamp |-> JStr("2024-01-01T18:30:00"),
        Suspected_Cause |-> JStr("Migration script"),
        Impact_Count |-> JNum(0)])

CountOnlyRecord == JObj([Impact_Count |-> JNum(5)])

NoCountRecord ==
  JObj([Severity |-> JStr("Low"), Component |-> JStr("Cache"),
        Timestamp |-> JStr("2024-01-01T18:30:00"),
        Suspected_Cause |-> JStr("Unknown")])

BlankCountRecord ==
  JObj([Severity |-> JArr(<<JNull>>), Component |-> JStr("Cache"),
        Timestamp |-> JStr("2024-01-01T18:30:00"),
        Suspected_Cause |-> JStr("Unknown"),
        Impact_Count |-> JStr("")])

ValidationDetail == JArr(<<JObj([msg |-> JStr("field required")])>>)

JsonBodies ==
  { JNull, JNum(5), EmptyObject,
    JObj([detail |-> JStr("Text must be at least 10 characters long")]),
    JObj([detail |-> JStr("")]),
    JObj([detail |-> ValidationDetail]),
    JObj([success |-> JBool(FALSE), error |-> JStr("Failed to parse incident")]),
    JObj([success |-> JBool(FALSE)]),
    JObj([success |-> JBool(TRUE), data |-> JNull]),
    JObj([success |-> JBool(TRUE), data |-> FullRecord]),
    JObj([success |-> JBool(TRUE), data |-> OddSeverityRecord]),
    JObj([success |-> JBool(TRUE), data |-> CountOnlyRecord]),
    JObj([success |-> JBool(TRUE), data |-> NoCountRecord]),
    JObj([success |-> JBool(TRUE), data |-> BlankCountRecord]) }

Bodies == JsonBodies \cup { Undecodable(m) : m \in SyntaxErrorMessages }

\* fetch rejects with a TypeError, or (a patched fetch) with a non-Error value.
FetchFailures == {ErrorOf("Failed to fetch"), NonError}

\* The text the engine gives the TypeError of reading a property of null:
\* V8 from version 9 on, and V8 before it.
NullTypeErrorMessages ==
  { "Cannot read properties of null (reading 'detail')",
    "Cannot read property 'detail' of null" }

NoTypeError == [isError |-> FALSE]

\* What reading errorData.detail throws for an answer: a TypeError in the
\* wording of the engine where the decoded body of a non-2xx answer is null,
\* nothing otherwise.
TypeErrorsOf(status, body) ==
  IF ~Ok(status) /\ PropThrows(body)
    THEN { ErrorOf(m) : m \in NullTypeErrorMessages }
    ELSE { NoTypeError }

ResponseOutcomes(status) ==
  UNION { { [kind |-> "response", status |-> status, body |-> b, typeError |-> e] :
              e \in TypeErrorsOf(status, b) } : b \in Bodies }

Outcomes ==
  { [kind |-> "reject", thrown |-> e] : e \in FetchFailures }
    \cup UNION { ResponseOutcomes(s) : s \in Statuses }

NoOutcome == [kind |-> "none"]

(***************************************************************************)
(* lib/api: parseIncident.                                                 *)
(***************************************************************************)
Resolved(v) == [settled |-> "resolved", value |-> v]
Rejected(e) == [settled |-> "rejected", thrown |-> e]
NotCalled == [settled |-> "none"]

\* What response.json() throws on a body that does not decode.
SyntaxError(body) == ErrorOf(body.message)
\* The catch block of parseIncident.
parseIncidentCatch(thrown) ==
  JObj([success |-> JBool(FALSE),
        error |-> JStr(IF thrown.isError
                         THEN thrown.message
                         ELSE "Failed to connect to API. Make sure the backend is running on port 8000.")])

\* `HTTP error! status: ${response.status}`
HttpErrorText(status) == JStr("HTTP error! status: " \o ToString(status))

\* The !response.ok branch: errorData is the decoded body, {} when it does
\* not decode; reading errorData.detail of null throws the engine's TypeError
\* into the catch block.
parseIncidentNotOk(status, body, typeError) ==
  LET errorData == IF IsUndecodable(body) THEN EmptyObject ELSE body
  IN  IF PropThrows(errorData)
        THEN parseIncidentCatch(typeError)
        ELSE JObj([success |-> JBool(FALSE),
                   error |-> IF Truthy(Prop(errorData, "detail"))
                               THEN Prop(errorData, "detail")
                               ELSE HttpErrorText(status)])

\* The response.ok path: the decoded body is returned as it is.
parseIncidentOk(body) ==
  IF IsUndecodable(body) THEN parseIncidentCatch(SyntaxError(body)) ELSE body

\* How the promise returned by parseIncident settles for a network outcome.
parseIncident(outcome) ==
  IF outcome.kind = "reject"
    THEN Resolved(parseIncidentCatch(outcome.thrown))
    ELSE IF ~Ok(outcome.status)
      THEN Resolved(parseIncidentNotOk(outcome.status, outcome.body, outcome.typeError))
      ELSE Resolved(parseIncidentOk(outcome.body))

(***************************************************************************)
(* IncidentParser: what the component renders for a value of `result`.     *)
(***************************************************************************)
Fields == {"Severity", "Component", "Timestamp", "Suspected_Cause", "Impact_Count"}

getSeverityColor(severity) ==
  CASE severity = JStr("High") -> "bg-red-500/20 text-red-400 border-red-500/50"
    [] severity = JStr("Med") -> "bg-yellow-500/20 text-yellow-400 border-yellow-500/50"
    [] severity = JStr("Low") -> "bg-green-500/20 text-green-400 border-green-500/50"
    [] OTHER -> "bg-gray-500/20 text-gray-400 border-gray-500/50"

RECURSIVE ChildThrows(_)
\* React throws on a plain object given as a child, at any depth of arrays.
ChildThrows(v) ==
  \/ v.t = "object"
  \/ v.t = "array" /\ \E i \in DOMAIN v.a : ChildThrows(v.a[i])

RECURSIVE ChildBlank(_)
\* React renders nothing for undefined, null, booleans and "", and for an
\* array of nothing but such children.
ChildBlank(v) ==
  \/ v.t \in {"undefined", "null", "boolean"}
  \/ v.t = "string" /\ v.s = ""
  \/ v.t = "array" /\ \A i \in DOMAIN v.a : ChildBlank(v.a[i])

RECURSIVE LocaleThrows(_)
\* v.toLocaleString() throws: v is null or undefined, v has an own property
\* toLocaleString or toString (never a function in decoded JSON, and
\* Object.prototype.toLocaleString calls this.toString()), or v is an array
\* with an element, other than null and undefined, on which the call throws.
LocaleThrows(v) ==
  \/ PropThrows(v)
  \/ v.t = "object" /\ {"toLocaleString", "toString"} \cap DOMAIN v.o # {}
  \/ v.t = "array"
       /\ \E i \in DOMAIN v.a : ~PropThrows(v.a[i]) /\ LocaleThrows(v.a[i])

RECURSIVE LocaleEmpty(_)
\* v.toLocaleString() is the empty string: "" itself, [] and an array whose
\* one element is null, undefined or gives the empty string.
LocaleEmpty(v) ==
  \/ v.t = "string" /\ v.s = ""
  \/ v.t = "array" /\ v.a = <<>>
  \/ v.t = "array" /\ Len(v.a) = 1
       /\ (PropThrows(v.a[1]) \/ LocaleEmpty(v.a[1]))

DefaultErrorText == JStr("An error occurred while parsing the incident.")

\* The result.success && result.data branch: the five cards.
RenderResult(data) ==
  LET count == Prop(data, "Impact_Count")
      children == {Prop(data, f) : f \in Fields \ {"Impact_Count"}}
  IN  IF LocaleThrows(count) \/ \E c \in children : ChildThrows(c)
        THEN [view |-> "crash"]
        ELSE [view |-> "result",
              severityClass |-> getSeverityColor(Prop(data, "Severity")),
              shown |-> {f \in {"Impact_Count"} : ~LocaleEmpty(count)}
                          \cup {f \in Fields \ {"Impact_Count"} : ~ChildBlank(Prop(data, f))}]

\* The other branch: {result.error || "An error occurred..."}.
RenderError(res) ==
  LET child == IF Truthy(Prop(res, "error")) THEN Prop(res, "error") ELSE DefaultErrorText
  IN  IF ChildThrows(child)
        THEN [view |-> "crash"]
        ELSE [view |-> "error", text |-> child]

\* {result && (...)}: nothing is rendered for a falsy result (a falsy number
\* is rendered as text).
Display(res) ==
  IF ~Truthy(res)
    THEN IF res.t = "number" THEN [view |-> "text"] ELSE [view |-> "none"]
    ELSE IF Truthy(Prop(res, "success")) /\ Truthy(Prop(res, "data"))
      THEN RenderResult(Prop(res, "data"))
      ELSE RenderError(res)

(***************************************************************************)
(* IncidentParser: the handlers.                                           *)
(***************************************************************************)
IdleHealth == [pc |-> "idle"]
IdleBackend == [pc |-> "idle"]

\* The component as mounted, no request made yet.
InitForm ==
  /\ inputText = <<>>
  /\ loading = FALSE
  /\ result = JNull
  /\ pending = <<>>
  /\ reading = <<>>
  /\ lastOutcome = NoOutcome
  /\ lastReturn = NotCalled
  /\ lastAction = "init"
  /\ cleared = FALSE
  /\ mounted = TRUE
  /\ health = IdleHealth

Init == InitForm /\ backend = IdleBackend

\* A state change only schedules the render; the render of the value that
\* setResult stored after the await runs as a later step.  Until it has run
\* the page is the one of the render before: the textarea and the Load Sample
\* and Clear buttons take events, the Parse button still has the disabled
\* attribute of the awaited request.
RenderPending == mounted /\ Display(result).view = "crash"

\* The scheduled render runs on a value it cannot render: it throws, and the
\* component, its textarea and its buttons leave the page.  A render that
\* does not throw changes no state.
render ==
  /\ RenderPending
  /\ mounted' = FALSE
  /\ UNCHANGED <<inputText, loading, result, pending, reading, lastOutcome, lastReturn,
                 lastAction, cleared, health, backend>>

\* onChange of the textarea.
onChange ==
  /\ mounted
  /\ \E t \in TypedTexts : inputText' = t
  /\ lastAction' = "change"
  /\ UNCHANGED <<loading, result, pending, reading, lastOutcome, lastReturn, cleared,
                 mounted, health, backend>>

handleSampleData ==
  /\ mounted
  /\ inputText' = SAMPLE_INCIDENT
  /\ lastAction' = "sample"
  /\ UNCHANGED <<loading, result, pending, reading, lastOutcome, lastReturn, cleared,
                 mounted, health, backend>>

\* Clear without its setResult(null).
handleClearKeepsResult ==
  /\ mounted
  /\ inputText' = <<>>
  /\ lastAction' = "clear"
  /\ cleared' = TRUE
  /\ UNCHANGED <<result, loading, pending, reading, lastOutcome, lastReturn, mounted, health, backend>>

handleClear ==
  /\ mounted
  /\ inputText' = <<>>
  /\ result' = JNull
  /\ lastAction' = "clear"
  /\ cleared' = TRUE
  /\ UNCHANGED <<loading, pending, reading, lastOutcome, lastReturn, mounted, health, backend>>

\* The body of the POST request: JSON.stringify({ text }).
ParseRequest(text) == [url |-> "/api/parse-incident", method |-> "POST", text |-> text]

\* A click on Parse: handleParse up to its await.
handleParse ==
  /\ mounted
  /\ ~RenderPending
  /\ ~ParseDisabled
  /\ IF TooShort(inputText)
       THEN /\ result' = TooShortResponse
            /\ UNCHANGED <<loading, pending>>
       ELSE /\ loading' = TRUE
            /\ result' = JNull
            /\ pending' = Append(pending, ParseRequest(inputText))
  /\ lastAction' = "parse"
  /\ cleared' = FALSE
  /\ UNCHANGED <<inputText, reading, lastOutcome, lastReturn, mounted, health, backend>>

\* What handleParse passes to setResult once the awaited promise has settled.
handleParseResult(promise) ==
  IF promise.settled = "resolved"
    THEN promise.value
    ELSE JObj([success |-> JBool(FALSE),
               error |-> JStr(IF promise.thrown.isError
                                THEN promise.thrown.message
                                ELSE "An unexpected error occurred")])

RemoveAt(s, i) == SubSeq(s, 1, i - 1) \o SubSeq(s, i + 1, Len(s))

\* parseIncident returns for the network outcome and handleParse resumes
\* after its await: setResult, then setLoading(false) in the finally block.
handleParseSettle(outcome) ==
  /\ lastOutcome' = outcome
  /\ lastReturn' = parseIncident(outcome)
  /\ result' = handleParseResult(parseIncident(outcome))
  /\ loading' = FALSE
  /\ lastAction' = "settle"
  /\ UNCHANGED <<inputText, cleared, mounted, health, backend>>

\* The fetch promise rejects: the catch block of parseIncident returns and
\* handleParse resumes.
fetchRejects ==
  \E i \in DOMAIN pending, e \in FetchFailures :
    /\ pending' = RemoveAt(pending, i)
    /\ UNCHANGED reading
    /\ handleParseSettle([kind |-> "reject", thrown |-> e])

\* The fetch promise resolves to a Response: parseIncident goes on to its
\* next await, response.json(), the body not yet in.
fetchResponds ==
  \E i \in DOMAIN pending, s \in Statuses :
    /\ pending' = RemoveAt(pending, i)
    /\ reading' = Append(reading, [request |-> pending[i], status |-> s])
    /\ UNCHANGED <<inputText, loading, result, lastOutcome, lastReturn,
                   lastAction, cleared, mounted, health, backend>>

\* response.json() settles: parseIncident returns and handleParse resumes.
handleParseResume ==
  \E j \in DOMAIN reading :
    \E outcome \in ResponseOutcomes(reading[j].status) :
      /\ reading' = RemoveAt(reading, j)
      /\ UNCHANGED pending
      /\ handleParseSettle(outcome)

Next ==
  \/ onChange
  \/ handleSampleData
  \/ handleClear
  \/ handleParse
  \/ render
  \/ fetchRejects
  \/ fetchResponds
  \/ handleParseResume

Spec == Init /\ [][Next]_vars

(***************************************************************************)
(* lib/api: checkHealth.                                                   *)
(***************************************************************************)
HealthOutcomes ==
  { [kind |-> "reject", thrown |-> e] : e \in FetchFailures }
    \cup { [kind |-> "response", status |-> s] : s \in 200..599 }

\* checkHealth that takes any answer for a healthy one.
checkHealthAnyAnswer(outcome) ==
  IF outcome.kind = "reject" THEN Resolved(JBool(FALSE)) ELSE Resolved(JBool(TRUE))

\* How the promise returned by checkHealth settles for a network outcome.
checkHealth(outcome) ==
  IF outcome.kind = "reject"
    THEN Resolved(JBool(FALSE))
    ELSE Resolved(JBool(Ok(outcome.status)))

\* checkHealth up to its await: GET /health is sent.
checkHealthCall ==
  /\ health.pc # "fetch"
  /\ health' = [pc |-> "fetch"]
  /\ UNCHANGED <<inputText, loading, result, pending, reading, lastOutcome, lastReturn,
                 lastAction, cleared, mounted, backend>>

\* GET /health settles and checkHealth returns.
checkHealthReturn ==
  /\ health.pc = "fetch"
  /\ \E outcome \in HealthOutcomes :
       health' = [pc |-> "done", outcome |-> outcome, promise |-> checkHealth(outcome)]
  /\ UNCHANGED <<inputText, loading, result, pending, reading, lastOutcome, lastReturn,
                 lastAction, cleared, mounted, backend>>

NextHealth ==
  \/ checkHealthCall
  \/ checkHealthReturn

SpecHealth == Init /\ [][NextHealth]_vars

(***************************************************************************)
(* Properties of the form and of the API client.                           *)
(***************************************************************************)
\* The requests to /api/parse-incident that have not settled: the fetch
\* promise or the reading of the body is outstanding.
InFlight == Len(pending) + Len(reading)

\* A response object of the shape {success: false, error: <non-empty string>}.
IsFailureResponse(v) ==
  /\ v.t = "object"
  /\ Prop(v, "success") = JBool(FALSE)
  /\ Prop(v, "error").t = "string"
  /\ Prop(v, "error").s # ""

\* C1: a Parse invocation on a text shorter than 10 characters sets a
\* success=false result carrying an error message and issues no request to
\* POST /api/parse-incident.
C1_ShortTextRejected ==
  [][(lastAction' = "parse" /\ Len(inputText) < 10)
       => /\ IsFailureResponse(result')
          /\ pending' = pending /\ reading' = reading /\ loading' = loading]_vars

C1_Witness ==
  /\ lastAction = "parse"
  /\ Len(inputText) < 10
  /\ Len(Trim(inputText)) = 9
  /\ IsFailureResponse(result)
  /\ InFlight = 0

\* The request failed: the network failed, the status is not 2xx, or the
\* body of a 2xx answer does not decode as JSON.
RequestFailed(o) ==
  \/ o.kind = "reject"
  \/ o.kind = "response" /\ (o.status < 200 \/ o.status > 299 \/ o.body.t = "invalid")

\* C2: parseIncident never rejects, and a failed request (network failure,
\* non-2xx status, undecodable 2xx body) resolves to success=false with a
\* non-empty error string.
C2_UniformFailure ==
  /\ lastReturn.settled # "rejected"
  /\ RequestFailed(lastOutcome)
       => (lastReturn.settled = "resolved" /\ IsFailureResponse(lastReturn.value))

\* C3: whenever a result is set, the interface shows all five fields or a
\* single error string, never a partial result.
C3_NoPartialDisplay ==
  result # JNull
    => \/ Display(result).view = "result" /\ Display(result).shown = Fields
       \/ /\ Display(result).view = "error"
          /\ Display(result).text.t = "string"
          /\ Display(result).text.s # ""

\* C4: the record that parseIncident returns as the data of a successful
\* response has a Severity among High, Med, Low and an Impact_Count that is
\* an integer >= 0.
C4_SuccessfulRecordValid ==
  (/\ lastReturn.settled = "resolved"
   /\ Prop(lastReturn.value, "success") = JBool(TRUE)
   /\ Prop(lastReturn.value, "data").t = "object")
    => LET data == Prop(lastReturn.value, "data")
       IN  /\ Prop(data, "Severity") \in {JStr("High"), JStr("Med"), JStr("Low")}
           /\ IsInteger(Prop(data, "Impact_Count"))
           /\ Prop(data, "Impact_Count").n >= 0

\* The error the claim C8 expects for a non-2xx answer.
ExpectedNotOkError(status, body) ==
  IF body.t = "object" /\ "detail" \in DOMAIN body.o
       /\ Truthy(body.o["detail"])
    THEN body.o["detail"]
    ELSE JStr("HTTP error! status: " \o ToString(status))

\* C8: for a non-2xx answer parseIncident returns success=false without
\* data, the error being the body's truthy detail or else the text
\* "HTTP error! status: <status>".
C8_NotOkError ==
  (lastOutcome.kind = "response" /\ (lastOutcome.status < 200 \/ lastOutcome.status > 299))
    => /\ lastReturn.settled = "resolved"
       /\ lastReturn.value =
            JObj([success |-> JBool(FALSE),
                  error |-> ExpectedNotOkError(lastOutcome.status, lastOutcome.body)])

\* C9: when the request of a Parse invocation settles, loading is false and
\* a non-null result is set.
C9_SettledShowsResult ==
  [][InFlight' < InFlight
       => (loading' = FALSE /\ result' # JNull /\ result' # Undefined)]_vars

\* C10 as stated: after Clear the result stays null until Parse is next
\* invoked.
C10_NullUntilParse == cleared => result = JNull

\* C10 as amended: Clear sets the result to null, and until Parse is next
\* invoked only a settling parse request (one in flight since before the
\* Clear) makes it non-null.
C10_NullUntilParseOrSettle ==
  [][/\ lastAction' = "clear" => result' = JNull
     /\ (cleared /\ cleared' /\ result = JNull /\ result' # JNull)
          => InFlight' < InFlight]_vars

C10_Witness ==
  /\ cleared
  /\ lastAction = "settle"
  /\ result # JNull
  /\ inputText = <<>>

\* C7: checkHealth never rejects; it resolves to true exactly when GET
\* /health answered with a 2xx status, and to false otherwise.
C7_HealthIsOk ==
  health.pc = "done"
    => /\ health.promise.settled = "resolved"
       /\ health.promise.value \in {JBool(TRUE), JBool(FALSE)}
       /\ health.promise.value = JBool(TRUE)
            <=> (health.outcome.kind = "response"
                 /\ health.outcome.status >= 200 /\ health.outcome.status <= 299)

C7_Witness ==
  /\ health.pc = "done"
  /\ health.outcome.kind = "response"
  /\ health.outcome.status = 404
  /\ health.promise = Resolved(JBool(FALSE))

(***************************************************************************)
(* The serving side: POST /api/parse-incident and the incident validator.  *)
(* Texts are sequences of one-character strings here as well.              *)
(***************************************************************************)
Digits == {"0", "1", "2", "3", "4", "5", "6", "7", "8", "9"}

DigitValue(c) ==
  CASE c = "0" -> 0 [] c = "1" -> 1 [] c = "2" -> 2 [] c = "3" -> 3 [] c = "4" -> 4
    [] c = "5" -> 5 [] c = "6" -> 6 [] c = "7" -> 7 [] c = "8" -> 8 [] c = "9" -> 9

UpperCase == <<"A", "B", "C", "D", "E", "F", "G", "H", "I", "J", "K", "L", "M", "N", "O", "P", "Q", "R", "S", "T", "U", "V", "W", "X", "Y", "Z">>
LowerCase == <<"a", "b", "c", "d", "e", "f", "g", "h", "i", "j", "k", "l", "m", "n", "o", "p", "q", "r", "s", "t", "u", "v", "w", "x", "y", "z">>

ToLowerChar(c) ==
  IF \E i \in DOMAIN UpperCase : UpperCase[i] = c
    THEN LowerCase[CHOOSE i \in DOMAIN UpperCase : UpperCase[i] = c]
    ELSE c

ToLower(s) == [i \in DOMAIN s |-> ToLowerChar(s[i])]

High == <<"H", "i", "g", "h">>
Med == <<"M", "e", "d">>
Low == <<"L", "o", "w">>
Severities == {High, Med, Low}

Unknown == <<"U", "n", "k", "n", "o", "w", "n">>

\* A field is absent when its name is missing from the payload or carries null.
Absent(v) == v.t \in {"undefined", "null"}

FieldOk(v) == [ok |-> TRUE, value |-> v]
FieldFail(e, f) == [ok |-> FALSE, error |-> e, field |-> f]

\* Severity matched without regard to case; Critical and P1 count as High,
\* Minor as Low.
NormalizeSeverity(s) ==
  LET l == ToLower(s)
  IN  CASE l \in {<<"h", "i", "g", "h">>, <<"c", "r", "i", "t", "i", "c", "a", "l">>, <<"p", "1">>} -> FieldOk(High)
        [] l = <<"m", "e", "d">> -> FieldOk(Med)
        [] l \in {<<"l", "o", "w">>, <<"m", "i", "n", "o", "r">>} -> FieldOk(Low)
        [] OTHER -> FieldFail("InvalidEnum", "severity")

\* A validator that fills in a severity when the provider sent none.
ValidateSeverityDefaulting(v) ==
  IF Absent(v)
    THEN FieldOk(Low)
    ELSE IF v.t # "string"
      THEN FieldFail("InvalidEnum", "severity")
      ELSE NormalizeSeverity(v.s)

\* Severity has no fallback: absent is MissingField, unrecognized InvalidEnum.
ValidateSeverity(v) ==
  IF Absent(v)
    THEN FieldFail("MissingField", "severity")
    ELSE IF v.t # "string"
      THEN FieldFail("InvalidEnum", "severity")
      ELSE NormalizeSeverity(v.s)

\* Component has no fallback either.
ValidateComponent(v) ==
  IF Absent(v) \/ v.t # "string" \/ v.s = <<>>
    THEN FieldFail("MissingField", "component")
    ELSE FieldOk(v.s)

\* suspected_cause falls back to "Unknown".
NormalizeCause(v) ==
  IF Absent(v) \/ v.t # "string" \/ v.s = <<>> THEN Unknown ELSE v.s

RECURSIVE DigitRun(_, _)
\* The value of the digits at the head of s, read after the value acc.
DigitRun(s, acc) ==
  IF s # <<>> /\ Head(s) \in Digits
    THEN DigitRun(Tail(s), 10 * acc + DigitValue(Head(s)))
    ELSE acc

RECURSIVE FirstInteger(_)
\* The first run of digits of s as a number, 0 when s has no digit.
FirstInteger(s) ==
  IF s = <<>>
    THEN 0
    ELSE IF Head(s) \in Digits THEN DigitRun(s, 0) ELSE FirstInteger(Tail(s))

\* impact_count: an integer is kept (a negative one clamped to 0), a number
\* with a fraction is cut to its integer part, a text gives its first
\* integer, anything else 0.
NormalizeImpactCount(v) ==
  CASE v.t = "number" -> IF v.n < 0 THEN 0 ELSE v.n
    [] v.t = "string" -> FirstInteger(v.s)
    [] OTHER -> 0

\* The shape dddd-dd-dd?dd:dd:dd with the separator sep between date and
\* time, and an optional Z at the end.
DateTimeShape(s, sep) ==
  /\ Len(s) \in {19, 20}
  /\ \A i \in {1, 2, 3, 4, 6, 7, 9, 10, 12, 13, 15, 16, 18, 19} : s[i] \in Digits
  /\ s[5] = "-" /\ s[8] = "-"
  /\ s[11] = sep
  /\ s[14] = ":" /\ s[17] = ":"
  /\ Len(s) = 20 => s[20] = "Z"

IsIso8601(s) == DateTimeShape(s, "T")

\* A timestamp normalization that rewrites valid timestamps too (drops the Z).
NormalizeTimestampRewrites(v, now) ==
  IF Absent(v) \/ v.t # "string"
    THEN now
    ELSE IF IsIso8601(v.s) \/ DateTimeShape(v.s, " ")
      THEN [i \in 1..19 |-> IF i = 11 THEN "T" ELSE v.s[i]]
      ELSE now

\* timestamp: ISO-8601 is kept, "date time" is converted, anything else is
\* the current time.
NormalizeTimestamp(v, now) ==
  IF Absent(v) \/ v.t # "string"
    THEN now
    ELSE IF IsIso8601(v.s)
      THEN v.s
      ELSE IF DateTimeShape(v.s, " ")
        THEN [i \in DOMAIN v.s |-> IF i = 11 THEN "T" ELSE v.s[i]]
        ELSE now

NotValidated == [ok |-> FALSE, error |-> "NotValidated", field |-> ""]

\* validate(raw): the record, or the first rule that failed.
validate(raw, now) ==
  IF IsUndecodable(raw) \/ raw.t # "object"
    THEN FieldFail("MalformedResponse", "")
    ELSE LET timestamp == NormalizeTimestamp(Prop(raw, "timestamp"), now)
             count == NormalizeImpactCount(Prop(raw, "impact_count"))
             severity == ValidateSeverity(Prop(raw, "severity"))
             component == ValidateComponent(Prop(raw, "component"))
         IN  IF ~severity.ok
               THEN severity
               ELSE IF ~component.ok
                 THEN component
                 ELSE FieldOk([severity |-> severity.value,
                               component |-> component.value,
                               timestamp |-> timestamp,
                               suspected_cause |-> NormalizeCause(Prop(raw, "suspected_cause")),
                               impact_count |-> count])

\* JSON encoding of an incident record, as decoded again by the reader.
Encode(r) ==
  JObj([severity |-> JStr(r.severity), component |-> JStr(r.component),
        timestamp |-> JStr(r.timestamp),
        suspected_cause |-> JStr(r.suspected_cause),
        impact_count |-> JNum(r.impact_count)])

\* The response of POST /api/parse-incident.
ParseIncidentEndpoint(text, llm, now) ==
  IF Len(text) < MIN_LENGTH
    THEN [validation |-> NotValidated,
          response |-> [success |-> FALSE, error |-> "InputTooShort"]]
    ELSE IF llm.kind = "unavailable"
      THEN [validation |-> NotValidated,
            response |-> [success |-> FALSE, error |-> "UpstreamUnavailable"]]
      ELSE LET v == validate(llm.raw, now)
           IN  [validation |-> v,
                response |-> IF v.ok
                               THEN [success |-> TRUE, data |-> v.value]
                               ELSE [success |-> FALSE, error |-> v.error]]

(***************************************************************************)
(* What the provider can answer.                                           *)
(***************************************************************************)
IsoStamp == <<"2", "0", "2", "4", "-", "0", "1", "-", "0", "1", "T", "1", "8", ":", "3", "0", ":", "0", "0">>
IsoStampZ == <<"2", "0", "2", "4", "-", "0", "1", "-", "0", "1", "T", "1", "8", ":", "3", "0", ":", "0", "0", "Z">>
SpacedStamp == <<"2", "0", "2", "4", "-", "0", "1", "-", "0", "1", " ", "1", "8", ":", "3", "0", ":", "0", "0">>
Now == <<"2", "0", "2", "6", "-", "1", "0", "-", "3", "0", "T", "0", "0", ":", "0", "0", ":", "0", "0", "Z">>
Db == <<"D", "B">>
Migration == <<"m", "i", "g", "r", "a", "t", "i", "o", "n">>

SeverityOptions ==
  { Undefined, JNull, JNum(1), JStr(High), JStr(Med), JStr(Low), JStr(<<"h", "i", "g", "h">>),
    JStr(<<"c", "r", "i", "t", "i", "c", "a", "l">>), JStr(<<"P", "1">>), JStr(<<"M", "i", "n", "o", "r">>), JStr(<<"u", "r", "g", "e", "n", "t">>) }
CountOptions ==
  { Undefined, JNum(0), JNum(500), JNum(-3), JReal(2, 5), JStr(<<"a", "b", "o", "u", "t", " ", "5", "0", "0", " ", "u", "s", "e", "r", "s">>), JStr(<<"m", "a", "n", "y">>) }
TimestampOptions ==
  { Undefined, JStr(IsoStamp), JStr(IsoStampZ), JStr(SpacedStamp), JStr(<<"n", "o", "t", "-", "a", "-", "d", "a", "t", "e">>) }
ComponentOptions == { Undefined, JStr(Db), JStr(<<>>) }
CauseOptions == { Undefined, JStr(Migration) }

FieldNames == {"severity", "component", "timestamp", "suspected_cause", "impact_count"}

\* The JSON object with the given values, a field left out when undefined.
Payload(sev, comp, ts, cause, count) ==
  LET all == [severity |-> sev, component |-> comp, timestamp |-> ts,
              suspected_cause |-> cause, impact_count |-> count]
      present == {f \in FieldNames : all[f] # Undefined}
  IN  JObj([f \in present |-> all[f]])

Payloads ==
  { Payload(sev, comp, ts, cause, count) :
      sev \in SeverityOptions, comp \in ComponentOptions, ts \in TimestampOptions,
      cause \in CauseOptions, count \in CountOptions }

\* A completion that is not JSON.
NotJson == Undecodable("Expecting value: line 1 column 1 (char 0)")

LlmOutcomes ==
  { [kind |-> "unavailable"] }
    \cup { [kind |-> "content", raw |-> p] : p \in Payloads \cup {NotJson, JArr(<<>>)} }

RequestTexts == { Repeat("a", n) : n \in (MIN_LENGTH - 1)..MIN_LENGTH }

\* A request has arrived and the provider's answer to it is fixed.
InitBackend ==
  /\ InitForm
  /\ backend \in { [pc |-> "received", text |-> text, llm |-> llm] :
                     text \in RequestTexts, llm \in LlmOutcomes }

\* POST /api/parse-incident is served.
ServeParseIncident ==
  /\ backend.pc = "received"
  /\ backend' = [pc |-> "done", text |-> backend.text, llm |-> backend.llm,
                 validation |-> ParseIncidentEndpoint(backend.text, backend.llm, Now).validation,
                 response |-> ParseIncidentEndpoint(backend.text, backend.llm, Now).response]
  /\ UNCHANGED <<inputText, loading, result, pending, reading, lastOutcome, lastReturn,
                 lastAction, cleared, mounted, health>>

NextBackend == ServeParseIncident

SpecBackend == InitBackend /\ [][NextBackend]_vars

(***************************************************************************)
(* Properties of the validator.                                            *)
(***************************************************************************)
Validated == backend.pc = "done" /\ backend.validation # NotValidated

\* C5: a provider response without a severity field ends in a MissingField
\* or InvalidEnum failure, never in a record with a defaulted severity.
C5_MissingSeverityFails ==
  (Validated /\ backend.llm.raw.t = "object" /\ "severity" \notin DOMAIN backend.llm.raw.o)
    => /\ ~backend.validation.ok
       /\ backend.validation.error \in {"MissingField", "InvalidEnum"}
       /\ ~backend.response.success

C5_Witness ==
  /\ Validated
  /\ backend.llm.raw.t = "object"
  /\ DOMAIN backend.llm.raw.o = FieldNames \ {"severity"}
  /\ backend.validation = FieldFail("MissingField", "severity")

\* The valid incident records of the model.
ValidRecords ==
  [severity : Severities, component : {Db}, timestamp : {IsoStamp, IsoStampZ},
   suspected_cause : {Migration, Unknown}, impact_count : {0, 500}]

\* C6: a valid record encoded to JSON and passed through the validator comes
\* back identical.
C6_RoundTrip ==
  \A r \in ValidRecords :
    (Validated /\ backend.llm.raw = Encode(r))
      => /\ backend.validation = FieldOk(r)
         /\ backend.response = [success |-> TRUE, data |-> r]

C6_Witness ==
  /\ Validated
  /\ \E r \in ValidRecords :
       /\ r.timestamp = IsoStampZ
       /\ r.severity = Med
       /\ backend.llm.raw = Encode(r)
       /\ backend.validation = FieldOk(r)

(***************************************************************************)
(* Properties of the requests in flight.                                   *)
(***************************************************************************)
\* C11: at most one request to /api/parse-incident is outstanding at any
\* time, and one is outstanding exactly while loading is true, when the
\* Parse button is disabled; a Parse invocation issues at most one request.
C11_OneRequestOutstanding ==
  /\ InFlight <= 1
  /\ loading <=> InFlight = 1
  /\ loading => ParseDisabled

C11_Witness ==
  /\ loading
  /\ Len(reading) = 1
  /\ lastAction = "change"
  /\ ~TooShort(inputText)
  /\ reading[1].request.text # inputText

====
